---- MODULE Spec2Model ----
(***************************************************************************)
(* Model of stac_fastapi/types/hierarchy.py: parse_hierarchy, the link     *)
(* builders browsable_child_link / browsable_item_link and                 *)
(* browsable_catalog.                                                      *)
(*                                                                         *)
(* Representation.                                                         *)
(*  - A Python str is a sequence of tokens; "/" and ":" are tokens of      *)
(*    their own and every other token is a word without "/" or ":", so     *)
(*    "http://h/api/" is <<"http", ":", "/", "/", "h", "/", "api", "/">>.  *)
(*    The token alphabet has no ".", "..", "?", "#" or ";" words.          *)
(*  - A Python value that may be None is None or Some(v).                  *)
(*  - A dict is a record; the value under every key but "children" is a    *)
(*    Python value, "children" holds a sequence of dicts.                  *)
(*  - A raised exception is the record Raise(name).                        *)
(***************************************************************************)
EXTENDS Integers, Sequences, FiniteSets, TLC

VARIABLES
    pc,      \* "start" | "parsing" | "parsed" | "done"
    d,       \* the input mapping given to parse_hierarchy
    stack,   \* the active calls of parse_hierarchy, outermost first
    ret,     \* path of a sub-mapping |-> the node its call returned
    calls,   \* the paths parse_hierarchy was called on, in call order
    call,    \* the last link-building call: its name and arguments
    result   \* what that call returned or raised

vars == <<pc, d, stack, ret, calls, call, result>>

\* A bound of the model: the number of mappings in an input tree.
MaxNodes == 3

-----------------------------------------------------------------------------
(* Python values *)

None == [none |-> TRUE]
Some(v) == [some |-> v]
Raise(name) == [exc |-> name]
IsRaise(x) == "exc" \in DOMAIN x

\* dict.get(key): the value under key, None without the key
get(m, key) == IF key \in DOMAIN m THEN m[key] ELSE None

\* truth value of an optional str: None and "" are falsy
Truthy(v) == v # None /\ v.some # <<>>

\* a or b
Or(a, b) == IF Truthy(a) THEN a ELSE b

-----------------------------------------------------------------------------
(* str operations *)

Slash == "/"

RECURSIVE lstrip(_)
lstrip(s) == IF s # <<>> /\ Head(s) = Slash THEN lstrip(Tail(s)) ELSE s

RECURSIVE rstrip(_)
rstrip(s) ==
    IF s # <<>> /\ s[Len(s)] = Slash THEN rstrip(SubSeq(s, 1, Len(s) - 1)) ELSE s

\* s.strip("/")
strip(s) == rstrip(lstrip(s))

\* s.split("/"): the segments between the "/" tokens, at least one
RECURSIVE split(_)
split(s) ==
    IF \A i \in 1..Len(s) : s[i] # Slash
    THEN <<s>>
    ELSE LET i == CHOOSE j \in 1..Len(s) :
                     s[j] = Slash /\ \A k \in 1..(j - 1) : s[k] # Slash
         IN  <<SubSeq(s, 1, i - 1)>> \o split(SubSeq(s, i + 1, Len(s)))

\* "/".join(segs)
RECURSIVE join(_)
join(segs) ==
    IF segs = <<>> THEN <<>>
    ELSE IF Len(segs) = 1 THEN segs[1]
    ELSE segs[1] \o <<Slash>> \o join(Tail(segs))

StartsWith(s, p) == Len(p) <= Len(s) /\ SubSeq(s, 1, Len(p)) = p
EndsWith(s, p) == Len(p) <= Len(s) /\ SubSeq(s, Len(s) - Len(p) + 1, Len(s)) = p
Contains(s, p) ==
    \E i \in 0..(Len(s) - Len(p)) : SubSeq(s, i + 1, i + Len(p)) = p

-----------------------------------------------------------------------------
(* urllib.parse, for URLs without params, query and fragment *)

Colon == ":"

\* the schemes of urllib.parse.uses_relative that the model's URLs can name;
\* each of them is in urllib.parse.uses_netloc too
uses_relative == {<<>>, <<"http">>, <<"https">>, <<"ftp">>, <<"file">>}
uses_netloc == uses_relative

\* the scheme of urlsplit: the words before the first ":" when only scheme
\* characters precede it
HasScheme(url) ==
    \E i \in 2..Len(url) :
        url[i] = Colon /\ \A k \in 1..(i - 1) : url[k] \notin {Colon, Slash}
SchemeEnd(url) ==
    CHOOSE i \in 2..Len(url) :
        url[i] = Colon /\ \A k \in 1..(i - 1) : url[k] \notin {Colon, Slash}

\* _splitnetloc(url, 2): the netloc runs to the next "/"
splitnetloc(scheme, netloc, after) ==
    [scheme |-> scheme, netloc |-> netloc,
     path |-> SubSeq(after, Len(netloc) + 1, Len(after))]

\* urlsplit after the scheme is taken off: the netloc after a leading "//"
splitrest(scheme, rest) ==
    IF StartsWith(rest, <<Slash, Slash>>)
    THEN splitnetloc(scheme, split(SubSeq(rest, 3, Len(rest)))[1],
                     SubSeq(rest, 3, Len(rest)))
    ELSE [scheme |-> scheme, netloc |-> <<>>, path |-> rest]

\* urlparse(url, scheme)
urlparse(url, default_scheme) ==
    IF HasScheme(url)
    THEN splitrest(SubSeq(url, 1, SchemeEnd(url) - 1),
                   SubSeq(url, SchemeEnd(url) + 1, Len(url)))
    ELSE splitrest(default_scheme, url)

\* urlunparse((scheme, netloc, path, "", "", ""))
urlunparse(scheme, netloc, path) ==
    (IF scheme # <<>> THEN scheme \o <<Colon>> ELSE <<>>)
    \o (IF netloc # <<>>
           \/ (scheme # <<>> /\ scheme \in uses_netloc
               /\ ~StartsWith(path, <<Slash, Slash>>))
        THEN <<Slash, Slash>> \o netloc
             \o (IF path # <<>> /\ Head(path) # Slash THEN <<Slash>> ELSE <<>>)
        ELSE <<>>)
    \o path

\* filter(None, segs): the non-empty segments
RECURSIVE filter_empty(_)
filter_empty(segs) ==
    IF segs = <<>> THEN <<>>
    ELSE IF Head(segs) = <<>> THEN filter_empty(Tail(segs))
    ELSE <<Head(segs)>> \o filter_empty(Tail(segs))

\* segments[1:-1] = filter(None, segments[1:-1])
filter_middle(segments) ==
    IF Len(segments) <= 2 THEN segments
    ELSE <<segments[1]>> \o filter_empty(SubSeq(segments, 2, Len(segments) - 1))
         \o <<segments[Len(segments)]>>

\* base_parts: the segments of the base path without a last segment that is
\* not a directory
drop_file(parts) ==
    IF parts[Len(parts)] # <<>> THEN SubSeq(parts, 1, Len(parts) - 1) ELSE parts

\* the segments urljoin resolves: those of an absolute path alone, else the
\* base's directory followed by those of the path
segments_of(bpath, path) ==
    IF StartsWith(path, <<Slash>>) THEN split(path)
    ELSE filter_middle(drop_file(split(bpath)) \o split(path))

\* the loop of urljoin that resolves "." and ".." segments
RECURSIVE resolve(_, _)
resolve(segments, resolved_path) ==
    IF segments = <<>> THEN resolved_path
    ELSE IF Head(segments) = <<"..">>
    THEN resolve(Tail(segments),
                 IF resolved_path = <<>> THEN <<>>
                 ELSE SubSeq(resolved_path, 1, Len(resolved_path) - 1))
    ELSE IF Head(segments) = <<".">> THEN resolve(Tail(segments), resolved_path)
    ELSE resolve(Tail(segments), Append(resolved_path, Head(segments)))

\* the resolved path, with the "/" appended after a last "." or ".."
resolved(segments) ==
    resolve(segments, <<>>)
    \o (IF segments[Len(segments)] \in {<<".">>, <<"..">>} THEN <<<<>>>> ELSE <<>>)

\* "/".join(resolved_path) or "/"
path_or_root(joined) == IF joined = <<>> THEN <<Slash>> ELSE joined

\* urljoin once base (b) and url (u) are parsed
urljoin_parsed(url, b, u) ==
    IF u.scheme # b.scheme \/ u.scheme \notin uses_relative THEN url
    ELSE IF u.scheme \in uses_netloc /\ u.netloc # <<>>
    THEN urlunparse(u.scheme, u.netloc, u.path)
    ELSE IF u.path = <<>>
    THEN urlunparse(u.scheme, IF u.scheme \in uses_netloc THEN b.netloc ELSE u.netloc,
                    b.path)
    ELSE urlunparse(u.scheme, IF u.scheme \in uses_netloc THEN b.netloc ELSE u.netloc,
                    path_or_root(join(resolved(segments_of(b.path, u.path)))))

urljoin_base(url, b) == urljoin_parsed(url, b, urlparse(url, b.scheme))

\* urljoin(base, url)
urljoin(base, url) ==
    IF base = <<>> THEN url
    ELSE IF url = <<>> THEN base
    ELSE urljoin_base(url, urlparse(base, <<>>))

\* a call of urljoin with the positional arguments args: urljoin(base, url,
\* allow_fragments=True) needs base and url
urljoin_call(args) ==
    IF Len(args) < 2 THEN Raise("TypeError") ELSE urljoin(args[1], args[2])


-----------------------------------------------------------------------------
(* hierarchy.py: the link builders *)

RelChild == <<"child">>
RelItem == <<"item">>
RelRoot == <<"root">>
RelSelf == <<"self">>
MimeJson == <<"application", "/", "json">>
STAC_VERSION == <<"STAC_VERSION">>

\* f"collections/{collection_id}"
CollectionPath(collection_id) == <<"collections", Slash>> \o collection_id

\* f"collections/{item_path[0]}/items/{item_path[1]}"
ItemHrefPath(item_path) ==
    <<"collections", Slash>> \o item_path[1] \o <<Slash, "items", Slash>> \o item_path[2]

\* the link to a CollectionNode, href being what the urljoin call gave
collection_link(node, href) ==
    IF IsRaise(href) THEN href
    ELSE [rel |-> RelChild, type |-> MimeJson,
          title |-> Or(get(node, "title"), get(node, "collection_id")),
          href |-> href]

\* browsable_child_link with the catalog branch resolved by urljoin
browsable_child_link_urljoin(node, base_url) ==
    IF "collection_id" \in DOMAIN node
    THEN collection_link(node,
             urljoin_call(<< <<base_url, CollectionPath(node.collection_id.some)>> >>))
    ELSE IF "catalog_id" \in DOMAIN node
    THEN [rel |-> RelChild, type |-> MimeJson,
          title |-> Or(get(node, "title"), get(node, "catalog_id")),
          href |-> urljoin_call(<<base_url, node.catalog_id.some>>)]
    ELSE None

\* browsable_child_link(node, base_url): a link, a raised exception, or None
\* when the function falls off its end
browsable_child_link(node, base_url) ==
    IF "collection_id" \in DOMAIN node
    THEN collection_link(node,
             urljoin_call(<< <<base_url, CollectionPath(node.collection_id.some)>> >>))
    ELSE IF "catalog_id" \in DOMAIN node
    THEN [rel |-> RelChild, type |-> MimeJson,
          title |-> Or(get(node, "title"), get(node, "catalog_id")),
          href |-> join(<<strip(base_url), node.catalog_id.some>>)]
    ELSE None

\* browsable_item_link(item_path, base_url)
browsable_item_link(item_path, base_url) ==
    [rel |-> RelItem, type |-> MimeJson,
     href |-> urljoin_call(<<base_url, ItemHrefPath(item_path)>>)]

-----------------------------------------------------------------------------
(* hierarchy.py: browsable_catalog *)

\* the sequence without its None entries
RECURSIVE without_none(_)
without_none(seq) ==
    IF seq = <<>> THEN <<>>
    ELSE IF Head(seq) = None THEN without_none(Tail(seq))
    ELSE <<Head(seq)>> \o without_none(Tail(seq))

\* children_links with the children that have no link left out
children_links_omitting(node, base_url) ==
    without_none([i \in 1..Len(node.children) |->
                      browsable_child_link(node.children[i], base_url)])

\* the list comprehension over node["children"]
children_links(node, base_url) ==
    [i \in 1..Len(node.children) |-> browsable_child_link(node.children[i], base_url)]

\* the list comprehension over node["items"], a list
item_links(items, base_url) ==
    [i \in 1..Len(items) |-> browsable_item_link(items[i], base_url)]

\* standard_links with catalog_path joined as it is given
standard_links_unstripped(catalog_path, base_url) ==
    << [rel |-> RelRoot, type |-> MimeJson, href |-> base_url],
       [rel |-> RelSelf, type |-> MimeJson,
        href |-> urljoin_call(<<base_url, <<Slash, "catalogs", Slash>> \o catalog_path>>)] >>

\* the root link and the self link
standard_links(catalog_path, base_url) ==
    << [rel |-> RelRoot, type |-> MimeJson, href |-> base_url],
       [rel |-> RelSelf, type |-> MimeJson,
        href |-> urljoin_call(<<base_url, <<Slash, "catalogs", Slash>> \o strip(catalog_path)>>)] >>

\* node.get("description") or f"Generated description for {node['catalog_id']}"
GeneratedDescription(catalog_id) == <<"Generated description for ">> \o catalog_id
\* the description without the generated default
catalog_description_raw(node) == get(node, "description")

catalog_description(node) ==
    Or(get(node, "description"), Some(GeneratedDescription(node.catalog_id.some)))

\* the first exception of a list of results
FirstRaise(links) ==
    links[CHOOSE i \in 1..Len(links) :
              IsRaise(links[i]) /\ \A k \in 1..(i - 1) : ~IsRaise(links[k])]

\* browsable_catalog after the comprehension over the children gave cl: the
\* catalog document, or the first exception the statements raise.  Catalog(...)
\* is taken as the record of its keyword arguments; the validation that
\* stac_pydantic applies to them is not part of the model.
catalog_of(node, catalog_path, base_url, cl) ==
    IF \E i \in 1..Len(cl) : IsRaise(cl[i]) THEN FirstRaise(cl)
    ELSE IF node.items = None THEN Raise("TypeError")     \* iteration over None
    ELSE IF "catalog_id" \notin DOMAIN node THEN Raise("KeyError")
    ELSE [type |-> "Catalog",
          id |-> node.catalog_id,
          description |-> catalog_description(node),
          stac_version |-> STAC_VERSION,
          links |-> cl \o item_links(node.items.some, base_url)
                       \o standard_links(catalog_path, base_url)]

\* browsable_catalog(node, catalog_path, base_url)
browsable_catalog(node, catalog_path, base_url) ==
    catalog_of(node, catalog_path, base_url, children_links(node, base_url))

IsCatalogDoc(x) == "links" \in DOMAIN x

-----------------------------------------------------------------------------
(* hierarchy.py: parse_hierarchy *)

Reverse(seq) == [i \in 1..Len(seq) |-> seq[Len(seq) + 1 - i]]

\* parse_node with catalog_id looked for first
parse_node_catalog_first(m, children) ==
    IF "catalog_id" \in DOMAIN m
    THEN [catalog_id |-> m.catalog_id, children |-> children,
          items |-> get(m, "items"),
          title |-> get(m, "title"), description |-> get(m, "description")]
    ELSE IF "collection_id" \in DOMAIN m
    THEN [collection_id |-> m.collection_id, children |-> children,
          items |-> get(m, "items")]
    ELSE [children |-> children, items |-> get(m, "items")]

\* parse_node with the title taken from the description
parse_node_title_from_description(m, children) ==
    IF "collection_id" \in DOMAIN m
    THEN [collection_id |-> m.collection_id, children |-> children,
          items |-> get(m, "items")]
    ELSE IF "catalog_id" \in DOMAIN m
    THEN [catalog_id |-> m.catalog_id, children |-> children,
          items |-> get(m, "items"),
          title |-> get(m, "description"), description |-> get(m, "description")]
    ELSE [children |-> children, items |-> get(m, "items")]

\* parse_node with the children in reverse order
parse_node_reversed(m, children) ==
    IF "collection_id" \in DOMAIN m
    THEN [collection_id |-> m.collection_id, children |-> Reverse(children),
          items |-> get(m, "items")]
    ELSE IF "catalog_id" \in DOMAIN m
    THEN [catalog_id |-> m.catalog_id, children |-> Reverse(children),
          items |-> get(m, "items"),
          title |-> get(m, "title"), description |-> get(m, "description")]
    ELSE [children |-> Reverse(children), items |-> get(m, "items")]

\* the return statements of parse_hierarchy(m), children being the parsed
\* children: the first of collection_id, catalog_id that m has decides the node
parse_node(m, children) ==
    IF "collection_id" \in DOMAIN m
    THEN [collection_id |-> m.collection_id, children |-> children,
          items |-> get(m, "items")]
    ELSE IF "catalog_id" \in DOMAIN m
    THEN [catalog_id |-> m.catalog_id, children |-> children,
          items |-> get(m, "items"),
          title |-> get(m, "title"), description |-> get(m, "description")]
    ELSE [children |-> children, items |-> get(m, "items")]

\* the sub-mapping of m reached through the children indices of path
RECURSIVE At(_, _)
At(m, path) == IF path = <<>> THEN m ELSE At(m.children[Head(path)], Tail(path))


-----------------------------------------------------------------------------
(* the inputs *)

Item1 == << <<"c1">>, <<"item1">> >>
Item2 == << <<"c2">>, <<"item2">> >>

\* the key sets a mapping of the input can have, "children" aside
NodeAttrs ==
    { [collection_id |-> Some(<<"c1">>)],
      [catalog_id |-> Some(<<"root">>), items |-> Some(<<Item1>>)],
      [catalog_id |-> Some(<<"sub">>), title |-> Some(<<"T">>),
       description |-> Some(<<"D">>), items |-> Some(<<Item1, Item2>>)],
      [catalog_id |-> Some(<<"x">>), title |-> Some(<<>>),
       description |-> Some(<<>>), items |-> Some(<<>>)],
      [catalog_id |-> Some(<<"k">>)],
      [collection_id |-> Some(<<"c2">>), catalog_id |-> Some(<<"sub">>),
       title |-> Some(<<"T">>), items |-> Some(<<>>)],
      [items |-> Some(<<Item2>>)] }

\* a mapping with an empty "children" list
EmptyChildren == [collection_id |-> Some(<<"c2">>), children |-> <<>>]

WithChildren(attrs, children) == attrs @@ [children |-> children]

\* the input mappings of exactly n mappings, and the child lists of n mappings
RECURSIVE TreesOfSize(_), ForestsOfSize(_)
TreesOfSize(n) ==
    IF n = 1 THEN NodeAttrs \cup {EmptyChildren}
    ELSE { WithChildren(a, f) : a \in NodeAttrs, f \in ForestsOfSize(n - 1) }
ForestsOfSize(n) ==
    IF n = 0 THEN {<<>>}
    ELSE UNION { { <<t>> \o f : t \in TreesOfSize(k), f \in ForestsOfSize(n - k) }
                 : k \in 1..n }

Inputs == UNION { TreesOfSize(n) : n \in 1..MaxNodes }

Http == <<"http", Colon, Slash, Slash, "h">>

BaseUrls ==
    { Http, Http \o <<Slash>>, Http \o <<Slash, "api">>, Http \o <<Slash, "api", Slash>>,
      Http \o <<Slash, "api", Slash, Slash>>, <<Slash, "api", Slash>> }

CatalogPaths ==
    { <<"root">>, <<"root", Slash, "sub">>,
      <<Slash, "root", Slash, "sub", Slash>>, <<Slash, Slash, "root", Slash, Slash>> }

-----------------------------------------------------------------------------
(* the state machine *)

NoCall == [op |-> "none"]

Init ==
    /\ pc = "start"
    /\ d \in Inputs
    /\ stack = <<>>
    /\ ret = <<>>
    /\ calls = <<>>
    /\ call = NoCall
    /\ result = None

Top == stack[Len(stack)]

\* parse_hierarchy(d) is called
ParseCall ==
    /\ pc = "start"
    /\ pc' = "parsing"
    /\ stack' = << [path |-> <<>>, children |-> <<>>] >>
    /\ calls' = << <<>> >>
    /\ UNCHANGED <<d, ret, call, result>>

\* ParseChild with the recursive call given the mapping itself, not the child
ParseChild_same_mapping ==
    /\ pc = "parsing"
    /\ LET m == At(d, Top.path)
       IN  /\ "children" \in DOMAIN m
           /\ Len(Top.children) < Len(m.children)
           /\ stack' = Append(stack, [path |-> Top.path, children |-> <<>>])
           /\ calls' = Append(calls, Top.path)
    /\ UNCHANGED <<pc, d, ret, call, result>>

\* the list comprehension of the innermost call calls parse_hierarchy on the
\* next child
ParseChild ==
    /\ pc = "parsing"
    /\ LET m == At(d, Top.path)
       IN  /\ "children" \in DOMAIN m
           /\ Len(Top.children) < Len(m.children)
           /\ LET path == Append(Top.path, Len(Top.children) + 1)
              IN  /\ stack' = Append(stack, [path |-> path, children |-> <<>>])
                  /\ calls' = Append(calls, path)
    /\ UNCHANGED <<pc, d, ret, call, result>>

\* the innermost call has its children and returns its node
ParseReturn ==
    /\ pc = "parsing"
    /\ LET m == At(d, Top.path)
           done == IF "children" \in DOMAIN m
                   THEN Len(Top.children) = Len(m.children) ELSE TRUE
           children == IF "children" \in DOMAIN m THEN Top.children ELSE <<>>
           node == parse_node(m, children)
           n == Len(stack)
       IN  /\ done
           /\ ret' = (Top.path :> node) @@ ret
           /\ IF n = 1
              THEN /\ stack' = <<>>
                   /\ pc' = "parsed"
              ELSE /\ stack' = [SubSeq(stack, 1, n - 1) EXCEPT
                                   ![n - 1].children = Append(@, node)]
                   /\ UNCHANGED pc
    /\ UNCHANGED <<d, calls, call, result>>

\* the node parse_hierarchy(d) returned
Root == ret[<<>>]

\* browsable_child_link on a child of the parsed node
ChildLink ==
    /\ pc = "parsed"
    /\ \E i \in 1..Len(Root.children), base_url \in BaseUrls :
           /\ call' = [op |-> "browsable_child_link", node |-> Root.children[i],
                       base_url |-> base_url]
           /\ result' = browsable_child_link(Root.children[i], base_url)
    /\ pc' = "done"
    /\ UNCHANGED <<d, stack, ret, calls>>

\* browsable_item_link on an item of the parsed node
ItemLink ==
    /\ pc = "parsed"
    /\ Root.items # None
    /\ \E i \in 1..Len(Root.items.some), base_url \in BaseUrls :
           /\ call' = [op |-> "browsable_item_link", item_path |-> Root.items.some[i],
                       base_url |-> base_url]
           /\ result' = browsable_item_link(Root.items.some[i], base_url)
    /\ pc' = "done"
    /\ UNCHANGED <<d, stack, ret, calls>>

\* browsable_catalog on the parsed node, a CatalogNode
BrowsableCatalog ==
    /\ pc = "parsed"
    /\ "catalog_id" \in DOMAIN Root
    /\ \E catalog_path \in CatalogPaths, base_url \in BaseUrls :
           /\ call' = [op |-> "browsable_catalog", node |-> Root,
                       catalog_path |-> catalog_path, base_url |-> base_url]
           /\ result' = browsable_catalog(Root, catalog_path, base_url)
    /\ pc' = "done"
    /\ UNCHANGED <<d, stack, ret, calls>>

Next ==
    \/ ParseCall
    \/ ParseChild
    \/ ParseReturn
    \/ ChildLink
    \/ ItemLink
    \/ BrowsableCatalog

Spec == Init /\ [][Next]_vars

\* parse_hierarchy alone.  A call that was made runs on: the interpreter takes
\* the next step of the innermost call until the outermost call returns.
ParseNext ==
    \/ ParseCall
    \/ ParseChild
    \/ ParseReturn

ParseSpec == Init /\ [][ParseNext]_vars /\ WF_vars(ParseNext)


-----------------------------------------------------------------------------
(* vocabulary of the properties *)

Did(op) == pc = "done" /\ call.op = op

\* p is s without its leading and trailing "/" tokens
IsStripOf(p, s) ==
    /\ p = <<>> \/ (p[1] # Slash /\ p[Len(p)] # Slash)
    /\ \E i \in 0..(Len(s) - Len(p)) :
           /\ SubSeq(s, i + 1, i + Len(p)) = p
           /\ \A k \in 1..i : s[k] = Slash
           /\ \A k \in (i + Len(p) + 1)..Len(s) : s[k] = Slash

\* p is s without its trailing "/" tokens
IsRStripOf(p, s) ==
    /\ p = <<>> \/ p[Len(p)] # Slash
    /\ Len(p) <= Len(s)
    /\ SubSeq(s, 1, Len(p)) = p
    /\ \A k \in (Len(p) + 1)..Len(s) : s[k] = Slash

\* the title a child link is to have: the node's non-empty title, else its id
ExpectedTitle(node, id_key) ==
    IF "title" \in DOMAIN node /\ node.title \notin {None, Some(<<>>)}
    THEN node.title ELSE node[id_key]

\* base_url treated as ending in "/"
AsDirectory(base_url) ==
    IF base_url # <<>> /\ base_url[Len(base_url)] = Slash
    THEN base_url ELSE base_url \o <<Slash>>

-----------------------------------------------------------------------------
(* C1 *)

\* C1: the links of the document browsable_catalog returns for a CatalogNode
\* are len(children) + len(items) + 2 long: a child link per child in order,
\* then an item link per item in order, then the root link, then the self link.
C1_LinksLayout ==
    Did("browsable_catalog") =>
        /\ IsCatalogDoc(result)
        /\ call.node.items # None
        /\ LET nc == Len(call.node.children)
               ni == Len(call.node.items.some)
               links == result.links
           IN  /\ Len(links) = nc + ni + 2
               /\ \A i \in 1..nc :
                      links[i] = browsable_child_link(call.node.children[i], call.base_url)
               /\ \A i \in 1..ni :
                      links[nc + i] =
                          browsable_item_link(call.node.items.some[i], call.base_url)
               /\ links[nc + ni + 1].rel = RelRoot
               /\ links[nc + ni + 2].rel = RelSelf

-----------------------------------------------------------------------------
(* C2 *)

\* C2: for a CollectionNode browsable_child_link returns a link with rel
\* "child", type "application/json", the node's non-empty title or else its
\* collection_id as title, and base_url joined with collections/{collection_id}
\* as href.
C2_CollectionChildLink ==
    (Did("browsable_child_link") /\ "collection_id" \in DOMAIN call.node) =>
        /\ ~IsRaise(result)
        /\ result # None
        /\ result.rel = RelChild
        /\ result.type = MimeJson
        /\ result.title = ExpectedTitle(call.node, "collection_id")
        /\ result.href = urljoin(call.base_url, CollectionPath(call.node.collection_id.some))
        /\ Contains(result.href, CollectionPath(call.node.collection_id.some))

-----------------------------------------------------------------------------
(* C3 *)

IsCatalogChild(node) ==
    "catalog_id" \in DOMAIN node /\ "collection_id" \notin DOMAIN node

\* the parts of C3 that do not depend on how base_url is stripped
C3_Common ==
    /\ result.rel = RelChild
    /\ result.type = MimeJson
    /\ result.title = ExpectedTitle(call.node, "catalog_id")
    /\ ~Contains(result.href, <<"collections", Slash>>)
    /\ EndsWith(result.href, <<Slash>> \o call.node.catalog_id.some)

\* what precedes "/{catalog_id}" in the href of a catalog child link
C3_HrefBase ==
    SubSeq(result.href, 1, Len(result.href) - Len(call.node.catalog_id.some) - 1)

\* C3 as claimed: for a CatalogNode child the href is base_url with its
\* trailing slash stripped, then "/", then the catalog_id.
C3_TrailingSlashOnly ==
    (Did("browsable_child_link") /\ IsCatalogChild(call.node)) =>
        /\ C3_Common
        /\ IsRStripOf(C3_HrefBase, call.base_url)

\* C3 as amended: for a CatalogNode child browsable_child_link returns a link
\* with rel "child", the node's non-empty title or else its catalog_id as
\* title, and as href base_url with all its leading and trailing slashes
\* stripped, then "/", then the catalog_id; no "collections/" is inserted.
C3_CatalogChildLink ==
    (Did("browsable_child_link") /\ IsCatalogChild(call.node)) =>
        /\ C3_Common
        /\ IsStripOf(C3_HrefBase, call.base_url)

\* a catalog child without a title is linked under a base_url that has a
\* leading and a trailing slash
C3_Witness ==
    /\ Did("browsable_child_link")
    /\ IsCatalogChild(call.node)
    /\ call.node.title = None
    /\ call.base_url = <<Slash, "api", Slash>>
    /\ result.href = <<"api", Slash>> \o call.node.catalog_id.some
    /\ result.title = call.node.catalog_id


-----------------------------------------------------------------------------
(* C4 *)

SelfSuffix(p) == <<Slash, "catalogs", Slash>> \o p

\* C4: in every document browsable_catalog returns, the root link's href is
\* the base_url argument unchanged, and the self link's href ends with
\* /catalogs/{p}, p being catalog_path without its leading and trailing
\* slashes, with no doubled slash at the join.
C4_StandardLinks ==
    (Did("browsable_catalog") /\ IsCatalogDoc(result)) =>
        LET n == Len(result.links)
            root == result.links[n - 1]
            self == result.links[n]
        IN  /\ root.rel = RelRoot
            /\ root.href = call.base_url
            /\ self.rel = RelSelf
            /\ \E i \in 1..(Len(call.catalog_path) + 1), j \in 0..Len(call.catalog_path) :
                   LET p == SubSeq(call.catalog_path, i, j)
                       k == Len(self.href) - Len(SelfSuffix(p))
                   IN  /\ IsStripOf(p, call.catalog_path)
                       /\ EndsWith(self.href, SelfSuffix(p))
                       /\ k > 0 => self.href[k] # Slash

\* a document is returned for a catalog_path with doubled leading and trailing
\* slashes under a base_url that ends with a doubled slash
C4_Witness ==
    /\ Did("browsable_catalog")
    /\ IsCatalogDoc(result)
    /\ call.catalog_path = <<Slash, Slash, "root", Slash, Slash>>
    /\ call.base_url = Http \o <<Slash, "api", Slash, Slash>>
    /\ result.links[Len(result.links)].href = Http \o <<Slash, "catalogs", Slash, "root">>

-----------------------------------------------------------------------------
(* C5 *)

\* C5: browsable_item_link returns a link with rel "item", type
\* "application/json" and an href that contains
\* collections/{collection_id}/items/{item_id} and is that path resolved
\* directory-style under base_url, base_url being treated as ending in "/".
C5_ItemLinkDirectoryStyle ==
    Did("browsable_item_link") =>
        /\ result.rel = RelItem
        /\ result.type = MimeJson
        /\ Contains(result.href, ItemHrefPath(call.item_path))
        /\ result.href = urljoin(AsDirectory(call.base_url), ItemHrefPath(call.item_path))

-----------------------------------------------------------------------------
(* C6 *)

\* C6: every node parse_hierarchy produces, at any depth, is a CollectionNode,
\* a CatalogNode or an untyped BrowsableNode by the keys of its mapping,
\* collection_id first: a mapping with collection_id gives a node with that
\* collection_id and no catalog_id, and no node has both ids.
C6_NodeClassification ==
    \A p \in DOMAIN ret :
        LET m == At(d, p)
            n == ret[p]
        IN  /\ ~("collection_id" \in DOMAIN n /\ "catalog_id" \in DOMAIN n)
            /\ "collection_id" \in DOMAIN m =>
                   /\ DOMAIN n = {"collection_id", "children", "items"}
                   /\ n.collection_id = m.collection_id
            /\ ("collection_id" \notin DOMAIN m /\ "catalog_id" \in DOMAIN m) =>
                   DOMAIN n = {"catalog_id", "children", "items", "title", "description"}
            /\ ("collection_id" \notin DOMAIN m /\ "catalog_id" \notin DOMAIN m) =>
                   DOMAIN n = {"children", "items"}

\* a mapping two levels down that has both ids was parsed
C6_Witness ==
    \E p \in DOMAIN ret :
        /\ Len(p) = 2
        /\ {"collection_id", "catalog_id"} \subseteq DOMAIN At(d, p)
        /\ "collection_id" \in DOMAIN ret[p]

-----------------------------------------------------------------------------
(* C7 *)

\* C7: a mapping with catalog_id and without collection_id gives a
\* CatalogNode with that catalog_id whose title and description are the
\* mapping's values where it has the key and None where it has not.
C7_CatalogNodeFields ==
    \A p \in DOMAIN ret :
        LET m == At(d, p)
            n == ret[p]
        IN  ("catalog_id" \in DOMAIN m /\ "collection_id" \notin DOMAIN m) =>
                /\ n.catalog_id = m.catalog_id
                /\ n.title = IF "title" \in DOMAIN m THEN m.title ELSE None
                /\ n.description =
                       IF "description" \in DOMAIN m THEN m.description ELSE None

\* a catalog mapping with title and description and one without were parsed
C7_Witness ==
    /\ pc = "parsed"
    /\ \E p \in DOMAIN ret :
           /\ {"catalog_id", "title", "description"} \subseteq DOMAIN At(d, p)
           /\ "collection_id" \notin DOMAIN At(d, p)
           /\ ret[p].title = Some(<<"T">>)
    /\ \E p \in DOMAIN ret :
           /\ DOMAIN At(d, p) = {"catalog_id"}
           /\ ret[p].title = None
           /\ ret[p].description = None

-----------------------------------------------------------------------------
(* C8 *)

\* C8: the children of the node parse_hierarchy returns for a mapping are, in
\* length and order, the nodes the calls on the mapping's children returned;
\* without a children key the node's children are the empty sequence.
C8_StructuralRecursion ==
    \A p \in DOMAIN ret :
        LET m == At(d, p)
            n == ret[p]
        IN  IF "children" \in DOMAIN m
            THEN /\ Len(n.children) = Len(m.children)
                 /\ \A i \in 1..Len(m.children) :
                        /\ Append(p, i) \in DOMAIN ret
                        /\ n.children[i] = ret[Append(p, i)]
            ELSE n.children = <<>>

\* a mapping with two different children, the second of them without a
\* children key, was parsed
C8_Witness ==
    /\ pc = "parsed"
    /\ "children" \in DOMAIN d
    /\ Len(d.children) = 2
    /\ d.children[1] # d.children[2]
    /\ "children" \notin DOMAIN d.children[2]
    /\ ret[<<>>].children = <<ret[<<1>>], ret[<<2>>]>>
    /\ ret[<<2>>].children = <<>>

-----------------------------------------------------------------------------
(* C9 *)

\* the parts of C9 that do not depend on the description
C9_Common ==
    /\ result.type = "Catalog"
    /\ result.id = call.node.catalog_id
    /\ result.description # None

C9_Generated == Some(<<"Generated description for ">> \o call.node.catalog_id.some)

\* C9 as claimed: the document's description is node.description when the node
\* has one, and the generated string otherwise.
C9_DescriptionWhenPresent ==
    (Did("browsable_catalog") /\ IsCatalogDoc(result)) =>
        /\ C9_Common
        /\ result.description =
               IF call.node.description # None
               THEN call.node.description ELSE C9_Generated

\* C9 as amended: the document has type "Catalog", the node's catalog_id as
\* id, and as description node.description when the node has a non-empty one
\* and "Generated description for {catalog_id}" otherwise; it is never None.
C9_CatalogDocument ==
    (Did("browsable_catalog") /\ IsCatalogDoc(result)) =>
        /\ C9_Common
        /\ result.description =
               IF call.node.description \notin {None, Some(<<>>)}
               THEN call.node.description ELSE C9_Generated

\* a document is returned for a node whose description is the empty string
C9_Witness ==
    /\ Did("browsable_catalog")
    /\ IsCatalogDoc(result)
    /\ call.node.description = Some(<<>>)
    /\ result.description = C9_Generated

-----------------------------------------------------------------------------
(* C10 *)

IsTypedMapping(m) == "collection_id" \in DOMAIN m \/ "catalog_id" \in DOMAIN m

\* C10: browsable_catalog returns a catalog document for every CatalogNode
\* parse_hierarchy produces from a mapping with catalog_id whose children,
\* if any, are collection or catalog mappings, with or without an items key;
\* a catalog with one collection child and one item gives 4 links.
C10_NoErrorOutcome ==
    (/\ Did("browsable_catalog")
     /\ "children" \in DOMAIN d => \A i \in 1..Len(d.children) : IsTypedMapping(d.children[i]))
    => /\ IsCatalogDoc(result)
       /\ (Len(call.node.children) = 1 /\ call.node.items # None
           /\ Len(call.node.items.some) = 1) => Len(result.links) = 4


-----------------------------------------------------------------------------
(* C11 *)

\* the paths of the mappings reachable from m through "children"
RECURSIVE PathsOf(_)
PathsOf(m) ==
    {<<>>} \cup
    (IF "children" \in DOMAIN m
     THEN UNION { { <<i>> \o p : p \in PathsOf(m.children[i]) } : i \in 1..Len(m.children) }
     ELSE {})

\* no mapping is visited twice, only mappings of the input are visited, and
\* every call made is either still active or has returned its one node; once
\* the outermost call has returned, every mapping was visited and has its node
C11_VisitedOnce ==
    /\ \A i, j \in 1..Len(calls) : calls[i] = calls[j] => i = j
    /\ \A i \in 1..Len(calls) : calls[i] \in PathsOf(d)
    /\ DOMAIN ret \subseteq { calls[i] : i \in 1..Len(calls) }
    /\ Cardinality(DOMAIN ret) + Len(stack) = Len(calls)
    /\ pc = "parsed" =>
           /\ { calls[i] : i \in 1..Len(calls) } = PathsOf(d)
           /\ DOMAIN ret = PathsOf(d)
           /\ stack = <<>>

\* C11: on every finite acyclic input parse_hierarchy terminates, having
\* visited each mapping reachable through "children" exactly once and
\* produced exactly one node per visited mapping.
C11_Terminates == []C11_VisitedOnce /\ <>(pc = "parsed")

\* the parse of an input of three mappings nested two levels deep has ended
C11_Witness ==
    /\ pc = "parsed"
    /\ calls = << <<>>, <<1>>, <<1, 1>> >>
    /\ DOMAIN ret = { <<>>, <<1>>, <<1, 1>> }


-----------------------------------------------------------------------------
(* C12 *)

IsUntyped(node) ==
    "collection_id" \notin DOMAIN node /\ "catalog_id" \notin DOMAIN node

====
